---- MODULE Spec2Model ----
(***************************************************************************)
(* Model of the notebook "7_Checkpointing Exercise": the checkpoint        *)
(* workflow create_checkpoint_ex, its helpers create_dataframe_ex and      *)
(* delete_hdfs_directory, and the Spark / Hadoop calls they make.          *)
(*                                                                         *)
(* A run is one execution of the notebook in its own kernel: cell 120-121  *)
(* gives it its own SparkContext sc, cell 130-131 its location_prefix.     *)
(* Runs share only the durable storage.  Each library call of the workflow *)
(* is one step of the run (pc names the next call).                        *)
(*                                                                         *)
(* Paths are sequences of components (Hadoop Path after resolution);       *)
(* the storage maps every existing path to "dir" or, for an RDD checkpoint *)
(* directory, to the sequence of its part files (one per partition).       *)
(***************************************************************************)
EXTENDS Integers, Sequences, FiniteSets, TLC

\* ---------------------------------------------------------------- bounds
NumRuns == 2
NumSlices == 2
MaxCalls == 3

Runs == 1..NumRuns

\* ------------------------------------------------------- program constants
\* df.show(25, False): at most 25 rows are shown.
ShowRows == 25

\* headers of create_dataframe_ex
headers == <<"id", "name", "age">>

\* data of create_dataframe_ex: 23 literal records (id, name, age)
data ==
  << <<1, "Steve", 26>>, <<2, "Yolanda", 23>>, <<3, "James", 21>>, <<4, "Joe", 19>>,
     <<5, "Ryan", 20>>, <<6, "Connor", 26>>, <<7, "Alan", 31>>, <<8, "John", 32>>,
     <<9, "Samantha", 28>>, <<10, "Alex", 30>>, <<11, "Dennis", 29>>, <<12, "Michael", 34>>,
     <<13, "Matthew", 27>>, <<14, "Jim", 29>>, <<15, "Sophia", 25>>,
     <<16, "Wendy", 29>>, <<17, "Stephan", 32>>, <<18, "Claude", 22>>,
     <<19, "Brendan", 24>>, <<20, "Regina", 37>>, <<21, "Stanley", 21>>,
     <<22, "Sharron", 32>>, <<23, "James", 21>> >>

\* The two values the notebook offers for location_prefix: "" and "/tmp/",
\* as path components.
LocationPrefixes == { <<>>, <<"tmp">> }

\* A workflow whose path ignores location_prefix.
CheckpointDirOf_fixed(prefix) == <<"my_local_check_point">>

\* checkpoint_dir = location_prefix + "my_local_check_point"
CheckpointDirOf(prefix) == prefix \o <<"my_local_check_point">>

Locations == { CheckpointDirOf(p) : p \in LocationPrefixes }

None == <<>>

\* ------------------------------------------------------------ path algebra
IsPrefix(p, q) == Len(p) <= Len(q) /\ SubSeq(q, 1, Len(p)) = p

Ancestors(p) == { SubSeq(p, 1, n) : n \in 1..Len(p) }

\* org.apache.hadoop.fs.FileSystem.exists
Exists(st, p) == p \in DOMAIN st

\* FileSystem.mkdirs: creates the directory and every missing ancestor.
Mkdirs(st, p) ==
  [q \in (DOMAIN st) \cup Ancestors(p) |-> IF q \in DOMAIN st THEN st[q] ELSE "dir"]

\* FileSystem.delete(path, recursive = True): the path and all below it.
FsDelete(st, p) ==
  [q \in {x \in DOMAIN st : ~IsPrefix(p, x)} |-> st[q]]

\* A path can be written when no enclosing location is read-only.
Writable(ro, p) == \A l \in ro : ~IsPrefix(l, p)


\* ------------------------------------------------------------------ state
VARIABLES
  storage,          \* durable storage: existing path -> "dir" or part files
  readonly,         \* locations the storage currently rejects writes under
  location_prefix,  \* per run: the notebook global location_prefix
  pc,               \* per run: the next call of create_checkpoint_ex
  checkpoint_dir,   \* per run: the local checkpoint_dir (None before line 188)
  sc,               \* per run: the SparkContext, [checkpointDir]
  rdds,             \* per run: the RDDs of the context, by id
  df,               \* per run: the local df, [plan, lazy_rdd]
  found,            \* per run: the result of fs.exists in delete_hdfs_directory
  printed,          \* per run: what the workflow printed
  calls,            \* per run: the library calls made so far, in order
  err               \* per run: the call that raised, or "none"

vars == <<storage, readonly, location_prefix, pc, checkpoint_dir,
          sc, rdds, df, found, printed, calls, err>>

\* ------------------------------------------------------------ the engine
\* ParallelCollectionRDD.slice: partition i of n holds the elements
\* (i-1)*len/n+1 .. i*len/n, in order.
Slice(rows, n) ==
  [i \in 1..n |-> SubSeq(rows, ((i - 1) * Len(rows)) \div n + 1, (i * Len(rows)) \div n)]

RECURSIVE Flatten(_)
\* The rows of an RDD: its partitions in partition order.
Flatten(parts) ==
  IF parts = <<>> THEN <<>> ELSE Head(parts) \o Flatten(Tail(parts))

Take(rows, n) == SubSeq(rows, 1, IF Len(rows) < n THEN Len(rows) ELSE n)

NoDf == [plan |-> 0, lazy_rdd |-> 0, columns |-> <<>>]

NewRdd(parent, parts) == [parent |-> parent, parts |-> parts, ckptFile |-> None]

\* spark.createDataFrame(data, headers): a DataFrame over the literal rows,
\* columns in the order of headers.
create_dataframe_ex ==
  [rdds |-> << NewRdd(0, Slice(data, NumSlices)) >>,
   df   |-> [plan |-> 1, lazy_rdd |-> 0, columns |-> headers]]

RECURSIVE Compute(_, _, _)
\* The partitions of RDD id: read from its checkpoint files when it is
\* checkpointed (failing when they are gone), else computed from its lineage.
Compute(st, rs, id) ==
  IF rs[id].ckptFile # None
    THEN IF Exists(st, rs[id].ckptFile)
           THEN [ok |-> TRUE, parts |-> st[rs[id].ckptFile]]
           ELSE [ok |-> FALSE, parts |-> <<>>]
    ELSE IF rs[id].parent = 0
           THEN [ok |-> TRUE, parts |-> rs[id].parts]
           ELSE Compute(st, rs, rs[id].parent)

\* SparkContext.setCheckpointDir(dir): makes the directory dir/<random UUID>
\* and records it as the context's checkpoint directory.
setCheckpointDir(st, ro, ctx, dir, uuid) ==
  LET path == dir \o << uuid >> IN
  IF ~Writable(ro, path)
    THEN [raised |-> TRUE, storage |-> st, sc |-> ctx]
    ELSE [raised |-> FALSE, storage |-> Mkdirs(st, path),
          sc |-> [ctx EXCEPT !.checkpointDir = path]]

\* The directory an RDD of the context is checkpointed to.
CheckpointFileOf(ctx, id) == ctx.checkpointDir \o << "rdd-" \o ToString(id) >>

\* A checkpoint that asks neither for a checkpoint directory nor whether the
\* storage accepts the write.
checkpoint_unchecked(st, ro, ctx, rs, d) ==
  LET id   == Len(rs) + 1
      rs1  == Append(rs, NewRdd(d.plan, <<>>))
      src  == Compute(st, rs, d.plan)
      file == CheckpointFileOf(ctx, id)
  IN
  IF ~src.ok
    THEN [raised |-> TRUE, storage |-> st, rdds |-> rs1, df |-> d]
    ELSE [raised |-> FALSE,
          storage |-> [q \in DOMAIN Mkdirs(st, file) |->
                         IF q = file THEN src.parts ELSE Mkdirs(st, file)[q]],
          rdds |-> [rs1 EXCEPT ![id] = [parent |-> 0, parts |-> <<>>, ckptFile |-> file]],
          df |-> [plan |-> id, lazy_rdd |-> 0, columns |-> d.columns]]

\* A checkpoint that writes the first partition only.
checkpoint_first_partition(st, ro, ctx, rs, d) ==
  LET id   == Len(rs) + 1
      rs1  == Append(rs, NewRdd(d.plan, <<>>))
      src  == Compute(st, rs, d.plan)
      file == CheckpointFileOf(ctx, id)
  IN
  IF ctx.checkpointDir = None \/ ~src.ok \/ ~Writable(ro, file)
    THEN [raised |-> TRUE, storage |-> st, rdds |-> rs1, df |-> d]
    ELSE [raised |-> FALSE,
          storage |-> [q \in DOMAIN Mkdirs(st, file) |->
                         IF q = file THEN << Head(src.parts) >> ELSE Mkdirs(st, file)[q]],
          rdds |-> [rs1 EXCEPT ![id] = [parent |-> 0, parts |-> <<>>, ckptFile |-> file]],
          df |-> [plan |-> id, lazy_rdd |-> 0, columns |-> d.columns]]

\* DataFrame.checkpoint(eager = True), i.e. Dataset.checkpoint: a new internal
\* RDD over the plan (queryExecution.toRdd.map(_.copy())) is marked for
\* checkpointing (RDD.checkpoint raises when the context has no checkpoint
\* directory), materialized at once (count()), written to
\* <checkpointDir>/rdd-<id>, and its lineage is cut; the result is a new
\* DataFrame whose plan reads that RDD.  The Python df is rebound to it.
checkpoint(st, ro, ctx, rs, d) ==
  LET id   == Len(rs) + 1
      rs1  == Append(rs, NewRdd(d.plan, <<>>))
      src  == Compute(st, rs, d.plan)
      file == CheckpointFileOf(ctx, id)
  IN
  IF ctx.checkpointDir = None \/ ~src.ok \/ ~Writable(ro, file)
    THEN [raised |-> TRUE, storage |-> st, rdds |-> rs1, df |-> d]
    ELSE [raised |-> FALSE,
          storage |-> [q \in DOMAIN Mkdirs(st, file) |->
                         IF q = file THEN src.parts ELSE Mkdirs(st, file)[q]],
          rdds |-> [rs1 EXCEPT ![id] = [parent |-> 0, parts |-> <<>>, ckptFile |-> file]],
          df |-> [plan |-> id, lazy_rdd |-> 0, columns |-> d.columns]]

\* DataFrame.rdd: the DataFrame's content as an RDD of Rows.  The first use
\* builds a new RDD from the DataFrame's plan (jrdd = self._jdf.javaToPython())
\* and caches it in _lazy_rdd; it is a child of the plan's RDD, not that RDD.
rdd(rs, d) ==
  IF d.lazy_rdd # 0
    THEN [rdds |-> rs, df |-> d, id |-> d.lazy_rdd]
    ELSE [rdds |-> Append(rs, NewRdd(d.plan, <<>>)),
          df |-> [d EXCEPT !.lazy_rdd = Len(rs) + 1],
          id |-> Len(rs) + 1]

\* RDD.isCheckpointed: whether this RDD itself has been checkpointed and
\* materialized (its own checkpoint data, not that of its parents).
isCheckpointed(rs, id) == rs[id].ckptFile # None

\* RDD.getCheckpointFile: the directory this RDD itself was checkpointed to,
\* None when it was not.
getCheckpointFile(rs, id) == rs[id].ckptFile

\* DataFrame.show(25, False): the first 25 rows of the DataFrame.
show(st, rs, d) ==
  LET res == Compute(st, rs, d.plan) IN
  [raised |-> ~res.ok, rows |-> Take(Flatten(res.parts), ShowRows)]

\* fs.delete(Path(input_ckpt_path), True) in delete_hdfs_directory: removes
\* the tree; deleting a missing path is no error; a rejected delete raises.
delete(st, ro, path) ==
  IF Exists(st, path) /\ ~Writable(ro, path)
    THEN [raised |-> TRUE, storage |-> st]
    ELSE [raised |-> FALSE, storage |-> FsDelete(st, path)]

\* A delete_hdfs_directory that fails on a missing path.
delete_hdfs_directory_strict(st, ro, path) ==
  IF Exists(st, path) THEN delete(st, ro, path)
                      ELSE [raised |-> TRUE, storage |-> st]

\* delete_hdfs_directory(sc, spark, input_ckpt_path) as one call: the delete
\* is made only when the path exists.
delete_hdfs_directory(st, ro, path) ==
  IF Exists(st, path) THEN delete(st, ro, path)
                      ELSE [raised |-> FALSE, storage |-> st]


\* -------------------------------------------------------------- the runs
EmptyStorage == [q \in {} |-> "dir"]

NoPrint == [isCheckpointed |-> <<>>, file |-> <<>>, rows |-> <<>>]

\* A library call as the log keeps it: the call, its path argument, whether
\* it raised, and what held when it was made (the path existed, the context
\* had a checkpoint directory, the storage accepted writes to the target).
Call(op, path, raised, existed, configured, writable) ==
  [op |-> op, path |-> path, raised |-> raised, existed |-> existed,
   configured |-> configured, writable |-> writable]

Last(s) == s[Len(s)]

\* UUID.randomUUID(): a name no other call gets (the run and the number of
\* the call within the run name it).
RandomUUID(r) == "uuid-" \o ToString(r) \o "-" \o ToString(Len(calls[r]) + 1)

\* A workflow that swallows the exception and goes on.
After_swallow(r, raised, next, op) ==
  /\ pc' = [pc EXCEPT ![r] = next]
  /\ err' = [err EXCEPT ![r] = IF raised THEN op ELSE @]

\* After a call: the next call, or the uncaught exception ends the workflow.
After(r, raised, next, op) ==
  /\ pc' = [pc EXCEPT ![r] = IF raised THEN "error" ELSE next]
  /\ err' = [err EXCEPT ![r] = IF raised THEN op ELSE @]

\* The cells before the workflow: the context is new, location_prefix is one
\* of the two values the notebook offers.
Init ==
  /\ storage = EmptyStorage
  /\ readonly = {}
  /\ location_prefix \in [Runs -> LocationPrefixes]
  /\ pc = [r \in Runs |-> "start"]
  /\ checkpoint_dir = [r \in Runs |-> None]
  /\ sc = [r \in Runs |-> [checkpointDir |-> None]]
  /\ rdds = [r \in Runs |-> <<>>]
  /\ df = [r \in Runs |-> NoDf]
  /\ found = [r \in Runs |-> FALSE]
  /\ printed = [r \in Runs |-> NoPrint]
  /\ calls = [r \in Runs |-> <<>>]
  /\ err = [r \in Runs |-> "none"]

\* create_checkpoint_ex, lines 184-189: df = create_dataframe_ex(sc, spark);
\* checkpoint_dir = location_prefix + "my_local_check_point".
Begin(r) ==
  /\ pc[r] = "start"
  /\ rdds' = [rdds EXCEPT ![r] = create_dataframe_ex.rdds]
  /\ df' = [df EXCEPT ![r] = create_dataframe_ex.df]
  /\ checkpoint_dir' = [checkpoint_dir EXCEPT ![r] = CheckpointDirOf(location_prefix[r])]
  /\ pc' = [pc EXCEPT ![r] = "setCheckpointDir"]
  /\ UNCHANGED <<storage, readonly, location_prefix, sc, found,
                 printed, calls, err>>

\* line 191: sc.setCheckpointDir(checkpoint_dir)
SetCheckpointDir(r) ==
  /\ pc[r] = "setCheckpointDir"
  /\ LET res == setCheckpointDir(storage, readonly, sc[r], checkpoint_dir[r], RandomUUID(r)) IN
       /\ storage' = res.storage
       /\ sc' = [sc EXCEPT ![r] = res.sc]
       /\ calls' = [calls EXCEPT ![r] =
            Append(@, Call("setCheckpointDir", checkpoint_dir[r], res.raised,
                           Exists(storage, checkpoint_dir[r]),
                           sc[r].checkpointDir # None,
                           Writable(readonly, checkpoint_dir[r])))]
       /\ After(r, res.raised, "checkpoint", "setCheckpointDir")
  /\ UNCHANGED <<readonly, location_prefix, checkpoint_dir, rdds, df, found, printed>>

\* line 193: df = df.checkpoint(True); df is rebound only when the call returns.
Checkpoint(r) ==
  /\ pc[r] = "checkpoint"
  /\ LET res == checkpoint(storage, readonly, sc[r], rdds[r], df[r]) IN
       /\ storage' = res.storage
       /\ rdds' = [rdds EXCEPT ![r] = res.rdds]
       /\ df' = [df EXCEPT ![r] = res.df]
       /\ calls' = [calls EXCEPT ![r] =
            Append(@, Call("checkpoint", sc[r].checkpointDir, res.raised,
                           Exists(storage, sc[r].checkpointDir),
                           sc[r].checkpointDir # None,
                           Writable(readonly, sc[r].checkpointDir)))]
       /\ After(r, res.raised, "inspect", "checkpoint")
  /\ UNCHANGED <<readonly, location_prefix, checkpoint_dir, sc, found, printed>>

\* lines 195-196: print(... df.rdd.isCheckpointed());
\* print(... df.rdd.getCheckpointFile())
Inspect(r) ==
  /\ pc[r] = "inspect"
  /\ LET res == rdd(rdds[r], df[r])
         again == rdd(res.rdds, res.df)
     IN
       /\ rdds' = [rdds EXCEPT ![r] = again.rdds]
       /\ df' = [df EXCEPT ![r] = again.df]
       /\ printed' = [printed EXCEPT
            ![r].isCheckpointed = << isCheckpointed(res.rdds, res.id) >>,
            ![r].file = << getCheckpointFile(again.rdds, again.id) >>]
  /\ pc' = [pc EXCEPT ![r] = "show"]
  /\ UNCHANGED <<storage, readonly, location_prefix, checkpoint_dir, sc,
                 found, calls, err>>

\* line 199: df.show(25, False)
Show(r) ==
  /\ pc[r] = "show"
  /\ LET res == show(storage, rdds[r], df[r]) IN
       /\ printed' = [printed EXCEPT ![r].rows =
                        IF res.raised THEN @ ELSE << res.rows >>]
       /\ calls' = [calls EXCEPT ![r] =
            Append(@, Call("show", None, res.raised, FALSE,
                           sc[r].checkpointDir # None, TRUE))]
       /\ After(r, res.raised, "exists", "show")
  /\ UNCHANGED <<storage, readonly, location_prefix, checkpoint_dir, sc,
                 rdds, df, found>>

\* A workflow that deletes the context's checkpoint directory instead.
DeletePathArg_context(r) == sc[r].checkpointDir

\* line 203: the path create_checkpoint_ex passes to delete_hdfs_directory.
DeletePathArg(r) == checkpoint_dir[r]

\* lines 203, 165-166: delete_hdfs_directory(sc, spark, checkpoint_dir) up to
\* if(fs.exists(Path(input_ckpt_path))); without the path the function returns.
DeleteExists(r) ==
  /\ pc[r] = "exists"
  /\ found' = [found EXCEPT ![r] = Exists(storage, DeletePathArg(r))]
  /\ calls' = [calls EXCEPT ![r] =
       Append(@, Call("exists", DeletePathArg(r), FALSE,
                      Exists(storage, DeletePathArg(r)),
                      sc[r].checkpointDir # None,
                      Writable(readonly, DeletePathArg(r))))]
  /\ pc' = [pc EXCEPT ![r] = IF Exists(storage, DeletePathArg(r)) THEN "delete" ELSE "done"]
  /\ UNCHANGED <<storage, readonly, location_prefix, checkpoint_dir, sc,
                 rdds, df, printed, err>>

\* line 169: fs.delete(Path(input_ckpt_path), True)
DeleteDelete(r) ==
  /\ pc[r] = "delete"
  /\ LET res == delete(storage, readonly, DeletePathArg(r)) IN
       /\ storage' = res.storage
       /\ calls' = [calls EXCEPT ![r] =
            Append(@, Call("delete", DeletePathArg(r), res.raised,
                           Exists(storage, DeletePathArg(r)),
                           sc[r].checkpointDir # None,
                           Writable(readonly, DeletePathArg(r))))]
       /\ After(r, res.raised, "done", "delete")
  /\ UNCHANGED <<readonly, location_prefix, checkpoint_dir, sc, rdds, df,
                 found, printed>>

\* The storage's owner revokes or restores write access to a location.
Chmod(l) ==
  /\ readonly' = IF l \in readonly THEN readonly \ {l} ELSE readonly \cup {l}
  /\ UNCHANGED <<storage, location_prefix, pc, checkpoint_dir, sc, rdds,
                 df, found, printed, calls, err>>

Next ==
  \/ \E r \in Runs : Begin(r)
  \/ \E r \in Runs : SetCheckpointDir(r)
  \/ \E r \in Runs : Checkpoint(r)
  \/ \E r \in Runs : Inspect(r)
  \/ \E r \in Runs : Show(r)
  \/ \E r \in Runs : DeleteExists(r)
  \/ \E r \in Runs : DeleteDelete(r)
  \/ \E l \in Locations : Chmod(l)

Spec == Init /\ [][Next]_vars


\* --------------------------------------------- the functions called freely
\* A second specification, of one kernel (run Client) over storage that may
\* hold directories left by earlier runs.  Either the kernel executes the
\* workflow, or its user has evaluated the cells up to create_dataframe_ex and
\* then calls sc.setCheckpointDir, df.checkpoint and delete_hdfs_directory in
\* any order and on any location, at most MaxCalls times.
Client == 1

LeftOver(ls) == [q \in ls |-> "dir"]

InitApi ==
  /\ \E ls \in SUBSET Locations : storage = LeftOver(ls)
  /\ readonly = {}
  /\ \E p \in LocationPrefixes : location_prefix = [r \in Runs |-> p]
  /\ \E mode \in {"api", "start"} :
       /\ pc = [r \in Runs |-> IF r = Client THEN mode ELSE "start"]
       /\ rdds = [r \in Runs |-> IF r = Client /\ mode = "api"
                                   THEN create_dataframe_ex.rdds ELSE <<>>]
       /\ df = [r \in Runs |-> IF r = Client /\ mode = "api"
                                 THEN create_dataframe_ex.df ELSE NoDf]
  /\ checkpoint_dir = [r \in Runs |-> None]
  /\ sc = [r \in Runs |-> [checkpointDir |-> None]]
  /\ found = [r \in Runs |-> FALSE]
  /\ printed = [r \in Runs |-> NoPrint]
  /\ calls = [r \in Runs |-> <<>>]
  /\ err = [r \in Runs |-> "none"]

\* A cell that raised leaves the kernel ready for the next cell.
AfterApi(r, raised, op) ==
  /\ pc' = pc
  /\ err' = [err EXCEPT ![r] = IF raised THEN op ELSE "none"]

\* sc.setCheckpointDir(l)
ApiSetCheckpointDir(r, l) ==
  /\ pc[r] = "api" /\ Len(calls[r]) < MaxCalls
  /\ LET res == setCheckpointDir(storage, readonly, sc[r], l, RandomUUID(r)) IN
       /\ storage' = res.storage
       /\ sc' = [sc EXCEPT ![r] = res.sc]
       /\ calls' = [calls EXCEPT ![r] =
            Append(@, Call("setCheckpointDir", l, res.raised, Exists(storage, l),
                           sc[r].checkpointDir # None, Writable(readonly, l)))]
       /\ AfterApi(r, res.raised, "setCheckpointDir")
  /\ UNCHANGED <<readonly, location_prefix, checkpoint_dir, rdds, df, found, printed>>

\* df = df.checkpoint(True)
ApiCheckpoint(r) ==
  /\ pc[r] = "api" /\ Len(calls[r]) < MaxCalls
  /\ LET res == checkpoint(storage, readonly, sc[r], rdds[r], df[r]) IN
       /\ storage' = res.storage
       /\ rdds' = [rdds EXCEPT ![r] = res.rdds]
       /\ df' = [df EXCEPT ![r] = res.df]
       /\ calls' = [calls EXCEPT ![r] =
            Append(@, Call("checkpoint", sc[r].checkpointDir, res.raised,
                           Exists(storage, sc[r].checkpointDir),
                           sc[r].checkpointDir # None,
                           Writable(readonly, sc[r].checkpointDir)))]
       /\ AfterApi(r, res.raised, "checkpoint")
  /\ UNCHANGED <<readonly, location_prefix, checkpoint_dir, sc, found, printed>>

\* delete_hdfs_directory(sc, spark, l)
ApiDelete(r, l) ==
  /\ pc[r] = "api" /\ Len(calls[r]) < MaxCalls
  /\ LET res == delete_hdfs_directory(storage, readonly, l) IN
       /\ storage' = res.storage
       /\ calls' = [calls EXCEPT ![r] =
            Append(@, Call("delete_hdfs_directory", l, res.raised, Exists(storage, l),
                           sc[r].checkpointDir # None, Writable(readonly, l)))]
       /\ AfterApi(r, res.raised, "delete_hdfs_directory")
  /\ UNCHANGED <<readonly, location_prefix, checkpoint_dir, sc, rdds, df, found, printed>>

NextApi ==
  \/ \E l \in Locations : ApiSetCheckpointDir(Client, l)
  \/ ApiCheckpoint(Client)
  \/ \E l \in Locations : ApiDelete(Client, l)
  \/ Begin(Client)
  \/ SetCheckpointDir(Client)
  \/ Checkpoint(Client)
  \/ Inspect(Client)
  \/ Show(Client)
  \/ DeleteExists(Client)
  \/ DeleteDelete(Client)
  \/ \E l \in Locations : Chmod(l)

SpecApi == InitApi /\ [][NextApi]_vars


\* ------------------------------------------------------------ properties
\* What the accessors of the notebook report for the run's dataset now:
\* df.rdd.isCheckpointed() and df.rdd.getCheckpointFile().
is_checkpointed(r) ==
  LET v == rdd(rdds[r], df[r]) IN isCheckpointed(v.rdds, v.id)

checkpoint_file(r) ==
  LET v == rdd(rdds[r], df[r]) IN getCheckpointFile(v.rdds, v.id)

\* The RDD behind the run's DataFrame is checkpointed (the engine's own view).
Materialized(r) == df[r].plan # 0 /\ isCheckpointed(rdds[r], df[r].plan)

\* The directory the RDD behind the run's DataFrame was checkpointed to.
MaterializedFile(r) == getCheckpointFile(rdds[r], df[r].plan)

Made(r, op) == \E i \in 1..Len(calls[r]) : calls[r][i].op = op

Returned(r, op) ==
  \E i \in 1..Len(calls[r]) : calls[r][i].op = op /\ ~calls[r][i].raised

\* The run's own delete removed its location.
Deleted(r) ==
  \E i \in 1..Len(calls[r]) :
    calls[r][i].op = "delete" /\ ~calls[r][i].raised /\ calls[r][i].existed

Alone(r) == \A q \in Runs \ {r} : pc[q] = "start"

\* C1: is_checkpointed(dataset) is false in every state before
\* checkpoint_dataset is called, and the value the workflow prints from
\* df.rdd.isCheckpointed() right after a successful df.checkpoint(True) is true.
C1_Claim ==
  \A r \in Runs :
    /\ pc[r] \in {"setCheckpointDir", "checkpoint"} => ~is_checkpointed(r)
    /\ printed[r].isCheckpointed # <<>> => printed[r].isCheckpointed = << TRUE >>

\* C8: after a successful checkpoint_dataset, the path the workflow gets from
\* checkpoint_file(dataset) has the location configured for the checkpoint as
\* its prefix.
C8_Claim ==
  \A r \in Runs :
    printed[r].file # <<>> =>
      /\ printed[r].file[1] # None
      /\ IsPrefix(checkpoint_dir[r], printed[r].file[1])

\* One step of run r is possible.
CanStep(r) ==
  \/ ENABLED Begin(r)
  \/ ENABLED SetCheckpointDir(r)
  \/ ENABLED Checkpoint(r)
  \/ ENABLED Inspect(r)
  \/ ENABLED Show(r)
  \/ ENABLED DeleteExists(r)
  \/ ENABLED DeleteDelete(r)

\* C9: an error-free single run never gets stuck before its end, and at its
\* end the dataset has is_checkpointed = true and the configured location no
\* longer exists in the storage.
C9_Claim ==
  \A r \in Runs :
    Alone(r) =>
      /\ pc[r] \notin {"done", "error"} => CanStep(r)
      /\ pc[r] = "done" =>
           /\ printed[r].isCheckpointed = << TRUE >>
           /\ is_checkpointed(r)
           /\ ~Exists(storage, checkpoint_dir[r])

\* The state of the run's dataset in its life cycle.
DatasetState(r) ==
  IF Deleted(r) THEN "Deleted"
  ELSE IF Materialized(r) THEN "Checkpointed" ELSE "Unmaterialized"

C5_State ==
  \A r \in Runs :
    /\ Deleted(r) => Materialized(r)
    /\ DatasetState(r) = "Deleted" =>
         /\ is_checkpointed(r)
         /\ printed[r].file = << checkpoint_file(r) >>
         /\ checkpoint_file(r) # None
         /\ ~Exists(storage, checkpoint_file(r))

C5_Step ==
  \A r \in Runs :
    /\ DatasetState(r) = "Unmaterialized" => DatasetState(r)' # "Deleted"
    /\ DatasetState(r) = "Checkpointed" => DatasetState(r)' # "Unmaterialized"
    /\ DatasetState(r) = "Deleted" => DatasetState(r)' = "Deleted"

\* C5: a dataset goes Unmaterialized -> Checkpointed -> Deleted only: its
\* location is never deleted by the workflow before it is checkpointed, it
\* never returns to Unmaterialized, and once Deleted it still reports
\* is_checkpointed = true and the same checkpoint file path, which no longer
\* exists.
C5_Claim == [][C5_Step /\ C5_State']_vars


StepOf(r, op) ==
  Len(calls'[r]) = Len(calls[r]) + 1 /\ Last(calls'[r]).op = op

C2_Step ==
  \A r \in Runs :
    StepOf(r, "delete_hdfs_directory") =>
      LET c == Last(calls'[r]) IN
        /\ ~c.raised => ~Exists(storage', c.path)
        /\ ~Exists(storage, c.path) => ~c.raised /\ storage' = storage
        /\ c.raised => c.existed /\ ~c.writable
        /\ ( /\ calls[r] # <<>>
             /\ Last(calls[r]).op = "delete_hdfs_directory"
             /\ Last(calls[r]).path = c.path
             /\ ~Last(calls[r]).raised )
           => ~c.raised /\ storage' = storage

C3_Step ==
  \A r \in Runs :
    /\ StepOf(r, "checkpoint") =>
         LET c == Last(calls'[r]) IN
           /\ (~c.configured \/ ~c.writable) => c.raised
           /\ c.raised =>
                /\ df'[r] = df[r]
                /\ storage' = storage
                /\ Materialized(r)' = Materialized(r)
                /\ ~is_checkpointed(r)'
           /\ pc[r] = "checkpoint" => c.configured
    /\ pc'[r] = "checkpoint" => sc'[r].checkpointDir # None

\* C3: df.checkpoint raises whenever the context has no checkpoint directory
\* or the storage rejects writes to it, and then the dataset is left as it
\* was, not checkpointed; in the workflow the call is always made with a
\* checkpoint directory configured.
C3_CheckpointErrors == [][C3_Step]_vars

\* A kernel called df.checkpoint with no checkpoint directory, and later with
\* one the storage rejected; both calls raised.
C3_Witness ==
  \E i, j \in 1..Len(calls[Client]) :
    /\ i < j
    /\ calls[Client][i].op = "checkpoint" /\ ~calls[Client][i].configured
    /\ calls[Client][i].raised
    /\ calls[Client][j].op = "checkpoint" /\ calls[Client][j].configured
    /\ ~calls[Client][j].writable /\ calls[Client][j].raised
    /\ ~Materialized(Client)

C4_State ==
  \A r \in Runs :
    /\ pc[r] = "error" <=> (calls[r] # <<>> /\ Last(calls[r]).raised)
    /\ pc[r] = "error" => err[r] = Last(calls[r]).op
    /\ \A i \in 1..(Len(calls[r]) - 1) : ~calls[r][i].raised
    /\ \A i, j \in 1..Len(calls[r]) : i # j => calls[r][i].op # calls[r][j].op
    /\ err[r] = "checkpoint" => ~Made(r, "exists") /\ ~Made(r, "delete")

C4_Step ==
  \A r \in Runs :
    /\ pc[r] = "error" =>
         /\ pc'[r] = "error" /\ calls'[r] = calls[r] /\ err'[r] = err[r]
         /\ df'[r] = df[r] /\ rdds'[r] = rdds[r] /\ sc'[r] = sc[r]
         /\ printed'[r] = printed[r]
    /\ (pc[r] # "error" /\ pc'[r] = "error") => storage' = storage

\* C4: a call of the workflow that raises ends the workflow: the raising
\* call is the last call of the run, no call is made twice, the step that
\* raised changed nothing in the storage, the run changes nothing afterwards,
\* and after df.checkpoint raised delete_hdfs_directory is never called.
C4_ErrorsHalt == [][C4_Step /\ C4_State']_vars

\* df.checkpoint raised in a run; the run is halted and its location is
\* still in the storage.
C4_Witness ==
  \E r \in Runs :
    /\ pc[r] = "error" /\ err[r] = "checkpoint"
    /\ Exists(storage, checkpoint_dir[r])

SharesPathWithDeleter(r) ==
  \E q \in Runs \ {r} : location_prefix[q] = location_prefix[r] /\ Deleted(q)

\* C6: a run's location, and with it its checkpoint files, is missing while
\* the run still uses it only when another run with the same path has deleted
\* it; runs with distinct paths never lose their location to another run.
C6_RaceOnlyOnSharedPath ==
  \A r \in Runs :
    /\ ( /\ pc[r] \in {"checkpoint", "inspect", "show", "exists", "delete"}
         /\ ~Exists(storage, checkpoint_dir[r]) )
       => SharesPathWithDeleter(r)
    /\ ( /\ Materialized(r) /\ pc[r] \in {"inspect", "show", "exists", "delete"}
         /\ ~Exists(storage, MaterializedFile(r)) )
       => SharesPathWithDeleter(r)

\* The race: a run is about to use its checkpointed dataset after another
\* run with the same path deleted the location.
C6_Witness ==
  \E r \in Runs :
    /\ Materialized(r) /\ pc[r] \in {"inspect", "show"}
    /\ ~Exists(storage, MaterializedFile(r))
    /\ SharesPathWithDeleter(r)

\* C7: the path the workflow passes to delete_hdfs_directory is the path it
\* registered with sc.setCheckpointDir before.
C7_DeletePathIsRegisteredPath ==
  \A r \in Runs :
    \A i \in 1..Len(calls[r]) :
      calls[r][i].op \in {"exists", "delete"} =>
        /\ calls[r][i].path = checkpoint_dir[r]
        /\ \E j \in 1..(i - 1) :
             /\ calls[r][j].op = "setCheckpointDir"
             /\ ~calls[r][j].raised
             /\ calls[r][j].path = calls[r][i].path

\* A run has deleted its location.
C7_Witness == \E r \in Runs : Deleted(r) /\ pc[r] = "done"

====
